---------------------------- MODULE Spec2Model ----------------------------
(***************************************************************************)
(* Team-balancing and role-assignment engine of backend/main.py:           *)
(*   generate_balanced_teams  (the spec's `partition`),                    *)
(*   generate_positions       (the spec's `assign_positions`),             *)
(*   auto_create_teams        (the POST /autocreate handler calling both). *)
(*                                                                         *)
(* Numbers: attributes and weights are integers; the weighted score is the *)
(* integer attack*w + defense*w + athleticism*w.  Coordinates are kept in  *)
(* hundredths (the code rounds x and y to two decimals), so 0.5 is 50 and  *)
(* 1.0 is 100.  A player's name is carried along unchanged by the code and *)
(* decides nothing; it is left out of the records.                         *)
(***************************************************************************)
EXTENDS Integers, Sequences, FiniteSets, TLC

VARIABLES
    entry,          \* which function the caller invoked
    pc,             \* position of the running call
    players,        \* request.players / the `players` argument
    weights,        \* request.attribute_weights / the `weights` argument
    scored_players, \* list of <<player, score>> being sorted and swapped
    i,              \* index of the swap loop (0-based, as in the code)
    team_a, team_b, \* the two lists being filled, then the returned pair
    sum_a, sum_b,   \* running strength sums
    k,              \* number of scored players already walked
    lastMove,       \* the latest step of the greedy walk (for the step claims)
    rngOut,         \* outcomes the module-global `random` has produced so far
    call,           \* 1 for the first call, 2 for a repeated call
    prevTeams,      \* the pair returned by the previous call
    raised,         \* exception that ended the call, or "none"
    cur,            \* team generate_positions is working on: "A", "B", "direct"
    team,           \* the `team` argument of generate_positions
    gp,             \* the local variables of generate_positions
    positions,      \* the `positions` list of generate_positions
    team_a_positions, team_b_positions,
    game,           \* rows of the `game` table
    response        \* what the handler answered

vars == <<entry, pc, players, weights, scored_players, i, team_a, team_b,
          sum_a, sum_b, k, lastMove, rngOut, call, prevTeams, raised, cur,
          team, gp, positions, team_a_positions, team_b_positions, game,
          response>>

---------------------------------------------------------------------------
(* Bounds of the model *)

\* Largest roster handed to auto_create_teams / generate_balanced_teams.
MaxRoster == 5

\* Largest team handed directly to generate_positions.
MaxTeam == 7

---------------------------------------------------------------------------
(* Inputs *)

\* (attack, defense, athleticism) of the players the inputs are built from.
Profiles ==
    { <<8, 2, 5>>, <<2, 8, 5>>, <<5, 5, 5>>, <<9, 1, 4>>, <<1, 9, 4>> }

\* class Player: uid, defense, attack, athleticism.
Player(u, prof) ==
    [uid |-> u, attack |-> prof[1], defense |-> prof[2], athleticism |-> prof[3]]

\* A roster: players with distinct uids 1..n, in request order.
RosterOf(profs) == [n \in 1..Len(profs) |-> Player(n, profs[n])]

SeqsUpTo(S, n) == UNION { [1..m -> S] : m \in 0..n }

\* The rosters of at most n players built from the profiles in P.
Rosters(P, n) == { RosterOf(profs) : profs \in SeqsUpTo(P, n) }

\* The profiles the rosters of the partition calls are built from.
RosterProfiles == { <<2, 8, 5>>, <<5, 5, 5>>, <<9, 1, 4>>, <<1, 9, 4>> }

\* attribute_weights dictionaries of the requests.
WeightChoices ==
    { [attack |-> 1, defense |-> 1, athleticism |-> 1],
      [attack |-> 2, defense |-> 0, athleticism |-> 1] }

---------------------------------------------------------------------------
(* Helpers shared by both functions *)

Abs(x) == IF x < 0 THEN -x ELSE x

Range(s) == { s[n] : n \in 1..Len(s) }

Uids(s) == { s[n].uid : n \in 1..Len(s) }

RECURSIVE FilterOut(_, _)
\* [p for p in s if p.uid not in U]
FilterOut(s, U) ==
    IF s = << >> THEN << >>
    ELSE IF Head(s).uid \in U THEN FilterOut(Tail(s), U)
         ELSE <<Head(s)>> \o FilterOut(Tail(s), U)

RECURSIVE InsertDesc(_, _)
\* Insert the pair x = <<item, key>> after every pair whose key is >= its
\* key: a stable descending order, as list.sort(key=..., reverse=True) and
\* sorted(..., reverse=True) keep equal keys in their original order.
InsertDesc(x, s) ==
    IF s = << >> THEN <<x>>
    ELSE IF Head(s)[2] >= x[2]
         THEN <<Head(s)>> \o InsertDesc(x, Tail(s))
         ELSE <<x>> \o s

RECURSIVE SortDescFrom(_, _)
SortDescFrom(s, acc) ==
    IF s = << >> THEN acc
    ELSE SortDescFrom(Tail(s), InsertDesc(Head(s), acc))

\* Sequence of <<item, key>> pairs in stable descending key order.
StableSortDesc(pairs) == SortDescFrom(pairs, << >>)

Items(pairs) == [n \in 1..Len(pairs) |-> pairs[n][1]]

---------------------------------------------------------------------------
(* generate_balanced_teams *)

\* p.attack * weights["attack"] + p.defense * weights["defense"]
\*   + p.athleticism * weights["athleticism"]
Score(p, w) ==
    p.attack * w.attack + p.defense * w.defense + p.athleticism * w.athleticism

\* scored_players = [(p, score) for p in players]
ScoredPlayers(ps, w) == [n \in 1..Len(ps) |-> <<ps[n], Score(ps[n], w)>>]

\* half_size = num_players // 2
HalfSize(n) == n \div 2

\* n_clusters = min(3, len(players) // 2).  KMeans.fit_predict labels the
\* players; the labels (`clusters`) are never read again, and with at least
\* two players 1 <= n_clusters <= len(players), so the fit cannot refuse.
NClusters(n) == IF n \div 2 < 3 THEN n \div 2 ELSE 3

\* abs(scored_players[i][1] - scored_players[i + 1][1])
\*   < 0.1 * scored_players[i][1]          (s, t integers: 10*|s-t| < s)
CloseScores(s, t) == 10 * Abs(s - t) < s

\* A swap written as two assignments in a row: the first overwrites what
\* the second was to read.
SwapAtOverwrite(s, n) == [s EXCEPT ![n] = s[n + 1]]

\* scored_players[i], scored_players[i + 1] =
\*     scored_players[i + 1], scored_players[i]    (n is i + 1, 1-based)
SwapAt(s, n) == [s EXCEPT ![n] = s[n + 1], ![n + 1] = s[n]]

\* The walk without its size cap: the lower sum alone decides.
GoesToAGreedy(ta, tb, sa, sb, half) == sa <= sb

\* The walk alternating between the teams, whatever the sums.
GoesToAAlternate(ta, tb, sa, sb, half) == Len(ta) <= Len(tb)

\* len(team_a) < half_size and (sum_a <= sum_b or len(team_b) >= half_size)
GoesToA(ta, tb, sa, sb, half) ==
    Len(ta) < half /\ (sa <= sb \/ Len(tb) >= half)

\* The guard off by one: a single player is let through.
TooFewOffByOne(ps) == Len(ps) < 1

\* if len(players) < 2: return [], []
TooFew(ps) == Len(ps) < 2

NoMove == [side |-> "none", sum_a |-> 0, sum_b |-> 0, len_a |-> 0, len_b |-> 0]

\* def generate_balanced_teams: the guard, the scores, the sort.
GenerateBalancedTeams ==
    /\ pc = "gbt"
    /\ IF TooFew(players)
       THEN /\ team_a' = << >>
            /\ team_b' = << >>
            /\ pc' = "returned"
            /\ UNCHANGED <<scored_players, i>>
       ELSE /\ scored_players' = StableSortDesc(ScoredPlayers(players, weights))
            /\ i' = 0
            /\ pc' = "swap"
            /\ UNCHANGED <<team_a, team_b>>
    /\ UNCHANGED <<entry, players, weights, sum_a, sum_b, k, lastMove, rngOut,
                   call, prevTeams, raised, cur, team, gp, positions,
                   team_a_positions, team_b_positions, game, response>>

\* One iteration of the swap loop on a close pair: random.random() < 0.3
\* is drawn from the module-global generator and decides the swap.
SwapLoopDraw ==
    /\ pc = "swap"
    /\ i < Len(scored_players) - 1
    /\ CloseScores(scored_players[i + 1][2], scored_players[i + 2][2])
    /\ \E swap \in BOOLEAN :
          /\ rngOut' = Append(rngOut, swap)
          /\ scored_players' =
                IF swap THEN SwapAt(scored_players, i + 1) ELSE scored_players
    /\ i' = i + 1
    /\ UNCHANGED <<entry, pc, players, weights, team_a, team_b, sum_a, sum_b,
                   k, lastMove, call, prevTeams, raised, cur, team, gp,
                   positions, team_a_positions, team_b_positions, game,
                   response>>

\* One iteration of the swap loop on a pair that is not close: no draw.
SwapLoopSkip ==
    /\ pc = "swap"
    /\ i < Len(scored_players) - 1
    /\ ~CloseScores(scored_players[i + 1][2], scored_players[i + 2][2])
    /\ i' = i + 1
    /\ UNCHANGED <<entry, pc, players, weights, scored_players, team_a,
                   team_b, sum_a, sum_b, k, lastMove, rngOut, call, prevTeams,
                   raised, cur, team, gp, positions, team_a_positions,
                   team_b_positions, game, response>>

\* The swap loop ends; team_a, team_b = [], []; sum_a, sum_b = 0, 0.
StartWalk ==
    /\ pc = "swap"
    /\ i >= Len(scored_players) - 1
    /\ team_a' = << >>
    /\ team_b' = << >>
    /\ sum_a' = 0
    /\ sum_b' = 0
    /\ k' = 0
    /\ lastMove' = NoMove
    /\ pc' = "walk"
    /\ UNCHANGED <<entry, players, weights, scored_players, i, rngOut, call,
                   prevTeams, raised, cur, team, gp, positions,
                   team_a_positions, team_b_positions, game, response>>

\* One iteration of `for player, score in scored_players`.
AssignStep ==
    /\ pc = "walk"
    /\ k < Len(scored_players)
    /\ LET player == scored_players[k + 1][1]
           score  == scored_players[k + 1][2]
           toA    == GoesToA(team_a, team_b, sum_a, sum_b,
                             HalfSize(Len(players)))
       IN  /\ team_a' = IF toA THEN Append(team_a, player) ELSE team_a
           /\ sum_a'  = IF toA THEN sum_a + score ELSE sum_a
           /\ team_b' = IF toA THEN team_b ELSE Append(team_b, player)
           /\ sum_b'  = IF toA THEN sum_b ELSE sum_b + score
           /\ lastMove' = [side  |-> IF toA THEN "A" ELSE "B",
                           sum_a |-> sum_a, sum_b |-> sum_b,
                           len_a |-> Len(team_a), len_b |-> Len(team_b)]
    /\ k' = k + 1
    /\ UNCHANGED <<entry, pc, players, weights, scored_players, i, rngOut,
                   call, prevTeams, raised, cur, team, gp, positions,
                   team_a_positions, team_b_positions, game, response>>

\* return team_a, team_b
ReturnTeams ==
    /\ pc = "walk"
    /\ k = Len(scored_players)
    /\ pc' = "returned"
    /\ UNCHANGED <<entry, players, weights, scored_players, i, team_a, team_b,
                   sum_a, sum_b, k, lastMove, rngOut, call, prevTeams, raised,
                   cur, team, gp, positions, team_a_positions,
                   team_b_positions, game, response>>

\* The caller calls generate_balanced_teams again with the same arguments.
\* Nothing in the module seeds or resets `random` between calls.
Reshuffle ==
    /\ pc = "returned"
    /\ entry = "partition"
    /\ call = 1
    /\ prevTeams' = <<team_a, team_b>>
    /\ call' = 2
    /\ pc' = "gbt"
    /\ scored_players' = << >>
    /\ i' = 0
    /\ team_a' = << >>
    /\ team_b' = << >>
    /\ sum_a' = 0
    /\ sum_b' = 0
    /\ k' = 0
    /\ lastMove' = NoMove
    /\ UNCHANGED <<entry, players, weights, rngOut, raised, cur, team, gp,
                   positions, team_a_positions, team_b_positions, game,
                   response>>

PartitionNext ==
    \/ GenerateBalancedTeams
    \/ SwapLoopDraw
    \/ SwapLoopSkip
    \/ StartWalk
    \/ AssignStep
    \/ ReturnTeams

---------------------------------------------------------------------------
(* generate_positions *)

Total(p) == p.attack + p.defense + p.athleticism

\* The key with the tie-break the wrong way round: lower defense first.
KeeperKeyLowDefense(p, q) ==
    \/ Total(p) < Total(q)
    \/ Total(p) = Total(q) /\ p.defense < q.defense

\* max() instead of min(): the strongest player first.
KeeperKeyGreater(p, q) ==
    \/ Total(p) > Total(q)
    \/ Total(p) = Total(q) /\ -p.defense < -q.defense

\* The key (p.attack + p.defense + p.athleticism, -p.defense) of p is
\* smaller than that of q (tuples compare lexicographically).
KeeperKeyLess(p, q) ==
    \/ Total(p) < Total(q)
    \/ Total(p) = Total(q) /\ -p.defense < -q.defense

RECURSIVE MinFrom(_, _)
\* min(): the first element with the smallest key.
MinFrom(best, s) ==
    IF s = << >> THEN best
    ELSE MinFrom(IF KeeperKeyLess(Head(s), best) THEN Head(s) ELSE best, Tail(s))

\* goalkeeper = min(team, key=...), for a non-empty team.
Goalkeeper(t) == MinFrom(Head(t), Tail(t))

\* num_zones = 2 if num_players < 6 else 3
NumZones(n) == IF n < 6 THEN 2 ELSE 3

\* The limits without the extra players: every zone gets the base only.
ZoneLimitsNoExtra(n) == [z \in 0..2 |-> (n - 1) \div NumZones(n)]

\* zone_limits: base_players_per_zone for zones 0, 1, 2, plus one for the
\* first extra_players zones.
ZoneLimits(n) ==
    LET base  == (n - 1) \div NumZones(n)
        extra == (n - 1) % NumZones(n)
    IN  [z \in 0..2 |-> base + (IF z < extra THEN 1 ELSE 0)]

\* sorted(outfield_players, key=lambda p: abs(p.attack - p.defense),
\*        reverse=True)
SortedOutfield(outfield) ==
    Items(StableSortDesc(
        [n \in 1..Len(outfield) |->
            <<outfield[n], Abs(outfield[n].attack - outfield[n].defense)>>]))

\* sorted(outfield_players,
\*        key=lambda p: p.athleticism + (p.attack + p.defense) / 2,
\*        reverse=True); the key is doubled to stay an integer.
MidfieldPriority(outfield) ==
    Items(StableSortDesc(
        [n \in 1..Len(outfield) |->
            <<outfield[n],
              2 * outfield[n].athleticism + outfield[n].attack
                + outfield[n].defense>>]))

\* zones[z].append(player); assigned_players.append(player.uid)
Put(f, z, p) ==
    [f EXCEPT !.zones[z] = Append(@, p),
              !.assigned_players = Append(@, p.uid)]

RECURSIVE OutlierLoop(_, _)
\* for player in sorted_outfield: ... (Place Outliers First)
OutlierLoop(s, f) ==
    IF s = << >> THEN f
    ELSE LET p == Head(s) IN
         OutlierLoop(Tail(s),
            IF Abs(p.attack - p.defense) > 3
               /\ p.uid \notin Range(f.assigned_players)
            THEN IF p.attack > p.defense
                    /\ Len(f.zones[2]) < f.zone_limits[2]
                 THEN Put(f, 2, p)
                 ELSE IF p.defense > p.attack
                         /\ Len(f.zones[0]) < f.zone_limits[0]
                      THEN Put(f, 0, p)
                      ELSE f
            ELSE f)

RECURSIVE MidfieldLoop(_, _)
\* for player in midfield_priority: ...
MidfieldLoop(s, f) ==
    IF s = << >> THEN f
    ELSE LET p == Head(s) IN
         MidfieldLoop(Tail(s),
            IF p.uid \notin Range(f.assigned_players)
               /\ Len(f.zones[1]) < f.zone_limits[1]
            THEN Put(f, 1, p)
            ELSE f)

RECURSIVE RemainingLoop(_, _)
\* for zone in range(num_zones):
\*     while len(zones[zone]) < zone_limits[zone] and remaining_players:
\*         player = remaining_players.pop(0); ...
RemainingLoop(zone, f) ==
    IF zone >= f.num_zones THEN f
    ELSE IF Len(f.zones[zone]) < f.zone_limits[zone]
            /\ f.remaining_players # << >>
         THEN RemainingLoop(zone,
                [Put(f, zone, Head(f.remaining_players))
                    EXCEPT !.remaining_players = Tail(@)])
         ELSE RemainingLoop(zone + 1, f)

RECURSIVE FirstFreeZone(_, _)
\* The first zone of range(num_zones), from `zone` on, below its limit;
\* num_zones when there is none.
FirstFreeZone(zone, f) ==
    IF zone >= f.num_zones THEN f.num_zones
    ELSE IF Len(f.zones[zone]) < f.zone_limits[zone] THEN zone
         ELSE FirstFreeZone(zone + 1, f)

RECURSIVE FailsafeLoop(_, _)
\* for player in remaining_players: for zone in range(num_zones): ... break
FailsafeLoop(s, f) ==
    IF s = << >> THEN f
    ELSE LET z == FirstFreeZone(0, f) IN
         FailsafeLoop(Tail(s),
            IF z < f.num_zones THEN Put(f, z, Head(s)) ELSE f)

\* a / b rounded to the nearest integer (a >= 0, b > 0).
RoundDiv(a, b) == (2 * a + b) \div (2 * b)

\* The rows spread over num_zones instead of num_zones + 1:
\* 1.0 - (zone + 1) / num_zones.
YOfNoMargin(zone, nz) == RoundDiv(100 * (nz - (zone + 1)), nz)

\* round(1.0 - ((zone + 1) / (num_zones + 1)), 2), in hundredths.
YOf(zone, nz) == RoundDiv(100 * (nz - zone), nz + 1)

\* x_spacing = 0.4 / max(n - 1, 1);
\* round(0.5 + (i - (n - 1) / 2) * x_spacing, 2), in hundredths.
XOf(idx, n) ==
    LET m == IF n - 1 > 1 THEN n - 1 ELSE 1
    IN  RoundDiv(50 * m + 20 * (2 * idx - (n - 1)), m)

\* The rows one zone adds to `positions`.
ZoneRows(zone, ps, nz) ==
    [n \in 1..Len(ps) |->
        [uid |-> ps[n].uid, x |-> XOf(n - 1, Len(ps)), y |-> YOf(zone, nz)]]

\* for zone, players in zones.items(): ...   (zones 0, 1 and 2)
LayoutRows(f) ==
    ZoneRows(0, f.zones[0], f.num_zones)
      \o ZoneRows(1, f.zones[1], f.num_zones)
      \o ZoneRows(2, f.zones[2], f.num_zones)

\* {"uid": goalkeeper.uid, ..., "x": 0.5, "y": 1.0}
KeeperRow(p) == [uid |-> p.uid, x |-> 50, y |-> 100]

NoPlayer == [uid |-> 0, attack |-> 0, defense |-> 0, athleticism |-> 0]

\* The locals of generate_positions before the call runs.
NoFrame ==
    [goalkeeper |-> NoPlayer, outfield_players |-> << >>, num_zones |-> 0,
     zone_limits |-> [z \in 0..2 |-> 0], sorted_outfield |-> << >>,
     midfield_priority |-> << >>, zones |-> [z \in 0..2 |-> << >>],
     assigned_players |-> << >>, remaining_players |-> << >>]

\* def generate_positions: the goalkeeper and the outfield players.
\* min() of an empty list raises ValueError.
SelectGoalkeeper ==
    /\ pc = "gp"
    /\ IF team = << >>
       THEN /\ raised' = "ValueError"
            /\ pc' = "raised"
            /\ UNCHANGED <<gp, positions>>
       ELSE /\ positions' = <<KeeperRow(Goalkeeper(team))>>
            /\ gp' = [NoFrame EXCEPT
                        !.goalkeeper = Goalkeeper(team),
                        !.outfield_players =
                            FilterOut(team, {Goalkeeper(team).uid})]
            /\ pc' = "gp_zones"
            /\ UNCHANGED raised
    /\ UNCHANGED <<entry, players, weights, scored_players, i, team_a,
                   team_b, sum_a, sum_b, k, lastMove, rngOut, call,
                   prevTeams, cur, team, team_a_positions, team_b_positions,
                   game, response>>

\* Step 2 and step 3: the zone limits and the two sorted lists.
ZoneStructure ==
    /\ pc = "gp_zones"
    /\ gp' = [gp EXCEPT
                !.num_zones = NumZones(Len(team)),
                !.zone_limits = ZoneLimits(Len(team)),
                !.sorted_outfield = SortedOutfield(gp.outfield_players),
                !.midfield_priority = MidfieldPriority(gp.outfield_players)]
    /\ pc' = "gp_outliers"
    /\ UNCHANGED <<entry, players, weights, scored_players, i, team_a,
                   team_b, sum_a, sum_b, k, lastMove, rngOut, call,
                   prevTeams, raised, cur, team, positions, team_a_positions,
                   team_b_positions, game, response>>

\* Place Outliers First.
PlaceOutliers ==
    /\ pc = "gp_outliers"
    /\ gp' = OutlierLoop(gp.sorted_outfield, gp)
    /\ pc' = "gp_midfield"
    /\ UNCHANGED <<entry, players, weights, scored_players, i, team_a,
                   team_b, sum_a, sum_b, k, lastMove, rngOut, call,
                   prevTeams, raised, cur, team, positions, team_a_positions,
                   team_b_positions, game, response>>

\* Prioritize Balanced, Athletic Players for Midfield.
FillMidfield ==
    /\ pc = "gp_midfield"
    /\ gp' = MidfieldLoop(gp.midfield_priority, gp)
    /\ pc' = "gp_remaining"
    /\ UNCHANGED <<entry, players, weights, scored_players, i, team_a,
                   team_b, sum_a, sum_b, k, lastMove, rngOut, call,
                   prevTeams, raised, cur, team, positions, team_a_positions,
                   team_b_positions, game, response>>

\* Evenly Distribute Remaining Players.
DistributeRemaining ==
    /\ pc = "gp_remaining"
    /\ gp' = RemainingLoop(0,
                [gp EXCEPT !.remaining_players =
                    FilterOut(gp.outfield_players,
                              Range(gp.assigned_players))])
    /\ pc' = "gp_failsafe"
    /\ UNCHANGED <<entry, players, weights, scored_players, i, team_a,
                   team_b, sum_a, sum_b, k, lastMove, rngOut, call,
                   prevTeams, raised, cur, team, positions, team_a_positions,
                   team_b_positions, game, response>>

\* Failsafe: Ensure No Dropped Players.
Failsafe ==
    /\ pc = "gp_failsafe"
    /\ gp' = FailsafeLoop(gp.remaining_players, gp)
    /\ pc' = "gp_layout"
    /\ UNCHANGED <<entry, players, weights, scored_players, i, team_a,
                   team_b, sum_a, sum_b, k, lastMove, rngOut, call,
                   prevTeams, raised, cur, team, positions, team_a_positions,
                   team_b_positions, game, response>>

\* Step 5: the rows of the three zones; return positions.
LayoutPositions ==
    /\ pc = "gp_layout"
    /\ positions' = positions \o LayoutRows(gp)
    /\ pc' = "gp_returned"
    /\ UNCHANGED <<entry, players, weights, scored_players, i, team_a,
                   team_b, sum_a, sum_b, k, lastMove, rngOut, call,
                   prevTeams, raised, cur, team, gp, team_a_positions,
                   team_b_positions, game, response>>

PositionsNext ==
    \/ SelectGoalkeeper
    \/ ZoneStructure
    \/ PlaceOutliers
    \/ FillMidfield
    \/ DistributeRemaining
    \/ Failsafe
    \/ LayoutPositions

---------------------------------------------------------------------------
(* auto_create_teams: POST /autocreate *)

\* The rows inserted for one team.
GameRows(label, rows) ==
    [n \in 1..Len(rows) |->
        [team |-> label, base_player_uid |-> rows[n].uid,
         x |-> rows[n].x, y |-> rows[n].y]]

\* if len(request.players) < 2: raise HTTPException(status_code=400, ...)
NotEnoughPlayers(ps) == Len(ps) < 2

\* The handler up to its call of generate_balanced_teams.
AutoCreateTeams ==
    /\ pc = "handler"
    /\ IF NotEnoughPlayers(players)
       THEN /\ raised' = "HTTPException"
            /\ response' = "400 Not enough players to form teams"
            /\ pc' = "done"
            /\ UNCHANGED game
       ELSE /\ game' = << >>
            /\ pc' = "gbt"
            /\ UNCHANGED <<raised, response>>
    /\ UNCHANGED <<entry, players, weights, scored_players, i, team_a,
                   team_b, sum_a, sum_b, k, lastMove, rngOut, call,
                   prevTeams, cur, team, gp, positions, team_a_positions,
                   team_b_positions>>

\* team_a_positions = generate_positions(team_a)
CallPositionsA ==
    /\ pc = "returned"
    /\ entry = "autocreate"
    /\ team' = team_a
    /\ cur' = "A"
    /\ pc' = "gp"
    /\ UNCHANGED <<entry, players, weights, scored_players, i, team_a,
                   team_b, sum_a, sum_b, k, lastMove, rngOut, call,
                   prevTeams, raised, gp, positions, team_a_positions,
                   team_b_positions, game, response>>

\* team_b_positions = generate_positions(team_b)
CallPositionsB ==
    /\ pc = "gp_returned"
    /\ cur = "A"
    /\ team_a_positions' = positions
    /\ team' = team_b
    /\ cur' = "B"
    /\ positions' = << >>
    /\ gp' = NoFrame
    /\ pc' = "gp"
    /\ UNCHANGED <<entry, players, weights, scored_players, i, team_a,
                   team_b, sum_a, sum_b, k, lastMove, rngOut, call,
                   prevTeams, raised, team_b_positions, game, response>>

\* The two INSERT loops, the commit and the answer.
InsertRows ==
    /\ pc = "gp_returned"
    /\ cur = "B"
    /\ team_b_positions' = positions
    /\ game' = game \o GameRows("A", team_a_positions)
                    \o GameRows("B", positions)
    /\ response' = "success"
    /\ pc' = "done"
    /\ UNCHANGED <<entry, players, weights, scored_players, i, team_a,
                   team_b, sum_a, sum_b, k, lastMove, rngOut, call,
                   prevTeams, raised, cur, team, gp, positions,
                   team_a_positions>>

---------------------------------------------------------------------------
(* Specifications *)

Blank ==
    /\ scored_players = << >>
    /\ i = 0
    /\ team_a = << >>
    /\ team_b = << >>
    /\ sum_a = 0
    /\ sum_b = 0
    /\ k = 0
    /\ lastMove = NoMove
    /\ rngOut = << >>
    /\ call = 1
    /\ prevTeams = << << >>, << >> >>
    /\ raised = "none"
    /\ gp = NoFrame
    /\ positions = << >>
    /\ team_a_positions = << >>
    /\ team_b_positions = << >>
    /\ game = << >>
    /\ response = "none"

\* One request to POST /autocreate, or one direct call of
\* generate_balanced_teams, on any roster of at most MaxRoster players.
Init ==
    /\ entry \in {"autocreate", "partition"}
    /\ pc = (IF entry = "autocreate" THEN "handler" ELSE "gbt")
    /\ players \in Rosters(RosterProfiles, MaxRoster)
    /\ weights \in WeightChoices
    /\ cur = "none"
    /\ team = << >>
    /\ Blank

Next ==
    \/ AutoCreateTeams
    \/ PartitionNext
    \/ CallPositionsA
    \/ PositionsNext
    \/ CallPositionsB
    \/ InsertRows

Spec == Init /\ [][Next]_vars

\* One direct call of generate_positions on any team of at most MaxTeam
\* players.
InitPositions ==
    /\ entry = "positions"
    /\ pc = "gp"
    /\ players = << >>
    /\ weights = [attack |-> 1, defense |-> 1, athleticism |-> 1]
    /\ cur = "direct"
    /\ team \in Rosters(Profiles, MaxTeam)
    /\ Blank

SpecPositions == InitPositions /\ [][PositionsNext]_vars

\* generate_balanced_teams called twice in a row with the same arguments.
InitRepeat ==
    /\ entry = "partition"
    /\ pc = "gbt"
    /\ players \in Rosters(RosterProfiles, MaxRoster)
    /\ weights \in WeightChoices
    /\ cur = "none"
    /\ team = << >>
    /\ Blank

NextRepeat ==
    \/ PartitionNext
    \/ Reshuffle

SpecRepeat == InitRepeat /\ [][NextRepeat]_vars

\* The concrete scenario: six players, all weights 1, through the handler.
ScenarioProfiles ==
    << <<8, 2, 5>>, <<2, 8, 5>>, <<5, 5, 5>>, <<5, 5, 5>>, <<9, 1, 4>>,
       <<1, 9, 4>> >>

InitScenario ==
    /\ entry = "autocreate"
    /\ pc = "handler"
    /\ players = RosterOf(ScenarioProfiles)
    /\ weights = [attack |-> 1, defense |-> 1, athleticism |-> 1]
    /\ cur = "none"
    /\ team = << >>
    /\ Blank

\* Every adjacent pair of the scenario is close (the scores are 15 and 14),
\* so every iteration of the swap loop draws.
NextScenario ==
    \/ AutoCreateTeams
    \/ GenerateBalancedTeams
    \/ SwapLoopDraw
    \/ StartWalk
    \/ AssignStep
    \/ ReturnTeams
    \/ CallPositionsA
    \/ PositionsNext
    \/ CallPositionsB
    \/ InsertRows

SpecScenario == InitScenario /\ [][NextScenario]_vars

---------------------------------------------------------------------------
(* Claims about generate_balanced_teams, checked under Spec *)

RosterSize == Len(players)

\* C1: for every roster of at least two players and every outcome of the
\* tie-break draws, the returned team_a and team_b are disjoint, hold no
\* player twice, and together are exactly the input roster.
C1_PartitionIsExact ==
    (pc = "returned" /\ RosterSize >= 2) =>
        /\ Uids(team_a) \cap Uids(team_b) = {}
        /\ Cardinality(Uids(team_a)) = Len(team_a)
        /\ Cardinality(Uids(team_b)) = Len(team_b)
        /\ Range(team_a) \cup Range(team_b) = Range(players)
        /\ Len(team_a) + Len(team_b) = RosterSize

\* C1 witness: a call on four or more players has returned after a draw
\* that swapped a close pair.
C1_Witness ==
    /\ pc = "returned"
    /\ RosterSize >= 4
    /\ TRUE \in Range(rngOut)
    /\ Len(team_a) >= 2

\* C2: for every roster of at least two players and every sequence of
\* tie-break draws, the sizes of the returned teams differ by at most one.
C2_SizeBalance ==
    (pc = "returned" /\ RosterSize >= 2) =>
        Abs(Len(team_a) - Len(team_b)) <= 1

\* C2 witness: an odd roster has been split 2 and 3 after one draw swapped
\* and another did not.
C2_Witness ==
    /\ pc = "returned"
    /\ RosterSize = 5
    /\ Len(team_a) = 2
    /\ Len(team_b) = 3
    /\ TRUE \in Range(rngOut)
    /\ FALSE \in Range(rngOut)

CeilHalf(n) == (n + 1) \div 2

\* The latest step sent its player to the team whose sum was strictly the
\* higher one.
WentToHigherSum ==
    \/ lastMove.side = "A" /\ lastMove.sum_a > lastMove.sum_b
    \/ lastMove.side = "B" /\ lastMove.sum_b > lastMove.sum_a

\* The size, before the latest step, of the team that did not get the
\* player.
OtherTeamSize ==
    IF lastMove.side = "A" THEN lastMove.len_b ELSE lastMove.len_a

\* C10 as claimed: at every step of the walk, a player goes to the team
\* with the strictly higher sum only when the other team already holds
\* ceil(n/2) members.
C10_HigherSumOnlyAtCeil ==
    WentToHigherSum => OtherTeamSize >= CeilHalf(RosterSize)

\* C10 amended: at every step of the walk, a player goes to the team with
\* the strictly higher sum only when the other team already holds
\* floor(n/2) members (half_size = num_players // 2).
C10_HigherSumOnlyAtFloor ==
    WentToHigherSum => OtherTeamSize >= HalfSize(RosterSize)

\* C10 witness: team_a, with the strictly higher sum, has just received a
\* player because team_b held its floor(n/2) members.
C10_Witness ==
    /\ pc = "walk"
    /\ lastMove.side = "A"
    /\ lastMove.sum_a > lastMove.sum_b
    /\ lastMove.len_b = HalfSize(RosterSize)
    /\ lastMove.len_b > 0

---------------------------------------------------------------------------
(* Claim about repeated calls, checked under SpecRepeat *)

\* C9: two calls of generate_balanced_teams with identical players and
\* weights return identical (team_a, team_b).
C9_RepeatedCallsAgree ==
    (call = 2 /\ pc = "returned") => <<team_a, team_b>> = prevTeams

---------------------------------------------------------------------------
(* Claims about generate_positions, checked under SpecPositions *)

TeamSize == Len(team)

PlacedUids == { positions[n].uid : n \in 1..Len(positions) }

MinTotal(t) == CHOOSE m \in { Total(t[n]) : n \in 1..Len(t) } :
                  \A n \in 1..Len(t) : m <= Total(t[n])

\* The rows of `positions` that place the player with this uid.
RowsOf(u) == { n \in 1..Len(positions) : positions[n].uid = u }

\* C3: for every team of at least one player, generate_positions returns
\* exactly one placement per input player: as many placements as players,
\* and every player placed exactly once.
C3_EveryPlayerPlacedOnce ==
    (pc = "gp_returned" /\ TeamSize >= 1) =>
        /\ Len(positions) = TeamSize
        /\ \A n \in 1..TeamSize : Cardinality(RowsOf(team[n].uid)) = 1
        /\ PlacedUids = Uids(team)

\* C3 witness: a three-zone team has been placed in which an attacking
\* outlier found the attack zone full and was placed by a later pass.
C3_Witness ==
    /\ pc = "gp_returned"
    /\ TeamSize >= 6
    /\ Len(gp.zones[2]) = gp.zone_limits[2]
    /\ \E z \in {0, 1} : \E n \in 1..Len(gp.zones[z]) :
          gp.zones[z][n].attack - gp.zones[z][n].defense > 3

\* C4: in every non-empty team the goalkeeper has the minimum
\* attack+defense+athleticism; among the players tied on that minimum it
\* has the highest defense; and its placement is at (0.5, 1.0).
C4_GoalkeeperIsWeakest ==
    (pc = "gp_returned" /\ TeamSize >= 1) =>
        /\ gp.goalkeeper \in Range(team)
        /\ Total(gp.goalkeeper) = MinTotal(team)
        /\ \A n \in 1..TeamSize :
              Total(team[n]) = MinTotal(team) =>
                  team[n].defense <= gp.goalkeeper.defense
        /\ \A n \in RowsOf(gp.goalkeeper.uid) :
              positions[n].x = 50 /\ positions[n].y = 100
        /\ RowsOf(gp.goalkeeper.uid) # {}

\* C4 witness: a team has been placed in which an earlier player ties the
\* goalkeeper on the total and has a lower defense.
C4_Witness ==
    /\ pc = "gp_returned"
    /\ TeamSize >= 2
    /\ \E n \in 1..TeamSize :
          /\ Total(team[n]) = Total(gp.goalkeeper)
          /\ team[n].defense < gp.goalkeeper.defense
          /\ team[n].uid < gp.goalkeeper.uid

\* C6: generate_positions on an empty team completes normally, without
\* raising.
C6_EmptyTeamCompletes ==
    (entry = "positions" /\ team = << >>) => raised = "none"

\* C8: every placement generate_positions builds has 0 <= x <= 1 and
\* 0 <= y <= 1 (0..100 in hundredths), the goalkeeper's included.
C8_CoordinatesInUnitSquare ==
    \A n \in 1..Len(positions) :
        /\ 0 <= positions[n].x /\ positions[n].x <= 100
        /\ 0 <= positions[n].y /\ positions[n].y <= 100

\* C8 witness: a placed team has rows on both ends of the x range and a
\* row on the far goal line (y = 0), besides the goalkeeper's.
C8_Witness ==
    /\ pc = "gp_returned"
    /\ \E n \in 1..Len(positions) : positions[n].x = 30
    /\ \E n \in 1..Len(positions) : positions[n].x = 70
    /\ \E n \in 1..Len(positions) : positions[n].y = 0
    /\ \E n \in 1..Len(positions) : positions[n].y = 100

\* The two-zone case as the claim states it: fewer than six players are
\* left once the goalkeeper is removed.
TwoZoneCase == TeamSize - 1 < 6

\* The rows of `positions` other than the goalkeeper's.
OutfieldRows == { n \in 1..Len(positions) : positions[n].uid # gp.goalkeeper.uid }

\* The number of zones the returned placement was built with is 2 in the
\* two-zone case and 3 otherwise.
ZoneCountAsClaimed ==
    (pc = "gp_returned" /\ TeamSize >= 1) =>
        gp.num_zones = (IF TwoZoneCase THEN 2 ELSE 3)

\* In the two-zone case the midfield priority pass, when its turn comes,
\* places nobody: running it leaves the zones and the assigned players as
\* they are.
MidfieldPassIdleInTwoZones ==
    (pc = "gp_midfield" /\ TwoZoneCase) =>
        MidfieldLoop(gp.midfield_priority, gp) = gp

\* In the two-zone case the third zone never holds a player and the
\* outfield rows lie on y = 1 - (zone_index + 1)/3 for zone_index 0 or 1
\* (0.67 and 0.33).
OnlyTwoRowsInTwoZones ==
    (TeamSize >= 1 /\ TwoZoneCase) =>
        /\ gp.zones[2] = << >>
        /\ pc = "gp_returned" =>
              \A n \in OutfieldRows : positions[n].y \in {YOf(0, 2), YOf(1, 2)}

\* C11: generate_positions uses 2 outfield zones when fewer than 6 players
\* remain after the goalkeeper is removed and 3 otherwise; in the 2-zone
\* case the midfield priority pass places nobody and the outfield players
\* occupy only the two rows of zones 0 and 1, never a third zone.
C11_TwoZonesBelowSix ==
    /\ ZoneCountAsClaimed
    /\ MidfieldPassIdleInTwoZones
    /\ OnlyTwoRowsInTwoZones

---------------------------------------------------------------------------
(* Claim about the concrete scenario, checked under SpecScenario *)

RECURSIVE MinScoreOf(_, _)
MinScoreOf(s, w) ==
    IF Len(s) = 1 THEN Score(s[1], w)
    ELSE LET m == MinScoreOf(Tail(s), w) IN
         IF Score(s[1], w) < m THEN Score(s[1], w) ELSE m

\* The player of team t that the game table shows at (0.5, 1.0) under
\* this team label.
KeeperRows(label) ==
    { n \in 1..Len(game) :
        game[n].team = label /\ game[n].x = 50 /\ game[n].y = 100 }

KeeperIsWeakest(label, t) ==
    /\ Cardinality(KeeperRows(label)) = 1
    /\ \A n \in KeeperRows(label) : \E m \in 1..Len(t) :
          /\ t[m].uid = game[n].base_player_uid
          /\ Total(t[m]) = MinTotal(t)

\* C7: for the six-player scenario with all weights 1 and every outcome of
\* the draws, the teams have three players each, their strength sums
\* differ by at most the smallest player's score (14), and each team's
\* player at (0.5, 1.0) has the lowest attribute total of its team.
C7_Scenario ==
    /\ pc = "returned" =>
          /\ Len(team_a) = 3
          /\ Len(team_b) = 3
          /\ Abs(sum_a - sum_b) <= MinScoreOf(players, weights)
          /\ MinScoreOf(players, weights) = 14
    /\ pc = "done" =>
          /\ response = "success"
          /\ Len(game) = 6
          /\ KeeperIsWeakest("A", team_a)
          /\ KeeperIsWeakest("B", team_b)

\* C7 witness: the scenario has been answered after a swap, with a team
\* that mixes totals of 15 and 14.
C7_Witness ==
    /\ pc = "done"
    /\ response = "success"
    /\ TRUE \in Range(rngOut)
    /\ \E n, m \in 1..Len(team_a) : Total(team_a[n]) > Total(team_a[m])

===========================================================================
